---- MODULE Spec2Model ----
(***************************************************************************)
(* A model of the embed extractor (src/src/extractors/embed.extractor.js)  *)
(* and of its controller (src/unnamed/part_000).                           *)
(*                                                                         *)
(* A JavaScript string is a sequence of one-character strings, so that     *)
(* the regular expressions, parseInt and the template literals of the      *)
(* source are computed rather than assumed.  An awaited httpClient.get is  *)
(* one step whose outcome (a body or a thrown error) is chosen by the      *)
(* environment; the race of getEmbedByDataIdAndEpisode between the         *)
(* metadata fetch and its timer is modelled with both in flight.           *)
(***************************************************************************)
EXTENDS Integers, Sequences, FiniteSets, TLC

(***************************************************************************)
(* Bounds of the model.                                                    *)
(***************************************************************************)
\* How many candidate pages the environment can serve (a prefix of PageList).
MaxPages == 5
\* How many metadata responses the environment can serve (a prefix of ApiList).
MaxApi == 5

(***************************************************************************)
(* JavaScript values.                                                      *)
(***************************************************************************)
\* null / undefined where a string is expected: no string has this shape.
NullStr == <<"<null>">>

DigitChars == {"0", "1", "2", "3", "4", "5", "6", "7", "8", "9"}

\* \s of a JavaScript regular expression, and what String.prototype.trim strips.
WhiteSpace == {" ", "\t", "\n", "\r"}

\* The line terminators that "." of a regular expression does not match.
LineTerminators == {"\n", "\r"}

DigitVal(c) ==
  CASE c = "0" -> 0 [] c = "1" -> 1 [] c = "2" -> 2 [] c = "3" -> 3
    [] c = "4" -> 4 [] c = "5" -> 5 [] c = "6" -> 6 [] c = "7" -> 7
    [] c = "8" -> 8 [] c = "9" -> 9

DigitChar(d) ==
  CASE d = 0 -> "0" [] d = 1 -> "1" [] d = 2 -> "2" [] d = 3 -> "3"
    [] d = 4 -> "4" [] d = 5 -> "5" [] d = 6 -> "6" [] d = 7 -> "7"
    [] d = 8 -> "8" [] d = 9 -> "9"

IsDigits(s) == Len(s) > 0 /\ \A i \in 1..Len(s) : s[i] \in DigitChars

\* parseInt(s, 10) of a string of decimal digits.
RECURSIVE ParseInt(_)
ParseInt(s) ==
  IF Len(s) = 0 THEN 0
  ELSE 10 * ParseInt(SubSeq(s, 1, Len(s) - 1)) + DigitVal(s[Len(s)])

\* String(n), `${n}` of a non-negative integer.
RECURSIVE NumToStr(_)
NumToStr(n) ==
  IF n < 10 THEN <<DigitChar(n)>>
  ELSE NumToStr(n \div 10) \o <<DigitChar(n % 10)>>

(***************************************************************************)
(* The identifier codec.                                                   *)
(***************************************************************************)
\* s[from..] matches \d+x\d+$ ; the answer is the position of the "x" or 0.
SuffixX(s, from) ==
  LET xs == {j \in from + 1 .. Len(s) - 1 :
               /\ s[j] = "x"
               /\ IsDigits(SubSeq(s, from, j - 1))
               /\ IsDigits(SubSeq(s, j + 1, Len(s)))}
  IN IF xs = {} THEN 0 ELSE CHOOSE j \in xs : TRUE

\* The lengths k of a prefix with which /^(.+?)-(\d+)x(\d+)$/ matches s.
PrefixLens(s) ==
  {k \in 1..Len(s) :
     /\ \A i \in 1..k : s[i] \notin LineTerminators
     /\ k + 1 <= Len(s)
     /\ s[k + 1] = "-"
     /\ SuffixX(s, k + 2) # 0}

\* The non-greedy group takes the shortest prefix that lets the rest match.
MatchLen(s) ==
  IF PrefixLens(s) = {} THEN 0
  ELSE CHOOSE k \in PrefixLens(s) : \A m \in PrefixLens(s) : k <= m

\* A pattern without the "$": the slug ends before the first group.
getSeriesIdFromEpisodeIdUnanchored(episodeId) ==
  LET ks == {k \in 1..Len(episodeId) - 1 :
               /\ \A i \in 1..k : episodeId[i] \notin LineTerminators
               /\ episodeId[k + 1] = "-"
               /\ \E e \in k + 4..Len(episodeId) :
                    SuffixX(SubSeq(episodeId, 1, e), k + 2) # 0}
  IN IF ks = {} THEN episodeId
     ELSE SubSeq(episodeId, 1, CHOOSE k \in ks : \A m \in ks : k <= m)

getSeriesIdFromEpisodeId(episodeId) ==
  IF MatchLen(episodeId) # 0 THEN SubSeq(episodeId, 1, MatchLen(episodeId))
  ELSE episodeId

NoParse == [kind |-> "null"]

\* A parser that takes the season for the episode and the episode for the
\* season.
parseEpisodeIdSwapped(episodeId) ==
  LET k == MatchLen(episodeId)
      x == SuffixX(episodeId, k + 2)
  IN IF k # 0
     THEN [kind |-> "parsed",
           animeTitle |-> SubSeq(episodeId, 1, k),
           season |-> ParseInt(SubSeq(episodeId, x + 1, Len(episodeId))),
           episode |-> ParseInt(SubSeq(episodeId, k + 2, x - 1))]
     ELSE NoParse

parseEpisodeId(episodeId) ==
  LET k == MatchLen(episodeId)
      x == SuffixX(episodeId, k + 2)
  IN IF k # 0
     THEN [kind |-> "parsed",
           animeTitle |-> SubSeq(episodeId, 1, k),
           season |-> ParseInt(SubSeq(episodeId, k + 2, x - 1)),
           episode |-> ParseInt(SubSeq(episodeId, x + 1, Len(episodeId)))]
     ELSE NoParse

\* The composite with the season and the episode in each other's place.
ComposeEpisodeIdSwapped(slug, season, episode) ==
  slug \o <<"-">> \o NumToStr(episode) \o <<"x">> \o NumToStr(season)

\* `${slug}-${season}x${episode}`
ComposeEpisodeId(slug, season, episode) ==
  slug \o <<"-">> \o NumToStr(season) \o <<"x">> \o NumToStr(episode)

(***************************************************************************)
(* The page parser: extract(html, url).                                    *)
(*                                                                         *)
(* A page is what the selectors of extract see of the HTML: the elements   *)
(* div[id^="options-"] in document order (the id after "options-", and     *)
(* the src and data-src of the first iframe inside, NullStr when absent),  *)
(* and the tab links a[href="#options-..."] with the text of their         *)
(* .server element.                                                        *)
(***************************************************************************)
Truthy(s) == s # NullStr /\ Len(s) > 0

\* The longest run of digits s starts with.
RECURSIVE LeadingDigits(_)
LeadingDigits(s) ==
  IF Len(s) > 0 /\ s[1] \in DigitChars
  THEN <<s[1]>> \o LeadingDigits(Tail(s))
  ELSE <<>>

\* optionId.match(/options-(\d+)/)[1] for the id "options-" + idSuffix, or
\* <<>> when there is no match (the suffixes of the model hold no second
\* "options-").
OptionMatch(idSuffix) == LeadingDigits(idSuffix)

RECURSIVE TrimLeft(_)
TrimLeft(s) ==
  IF Len(s) > 0 /\ s[1] \in WhiteSpace THEN TrimLeft(Tail(s)) ELSE s

RECURSIVE TrimRight(_)
TrimRight(s) ==
  IF Len(s) > 0 /\ s[Len(s)] \in WhiteSpace
  THEN TrimRight(SubSeq(s, 1, Len(s) - 1))
  ELSE s

\* String.prototype.trim
Trim(s) == TrimRight(TrimLeft(s))

\* this.extractText($(`a[href="#${optionId}"] .server`).first()).trim()
ServerLabel(page, idSuffix) ==
  LET hits == {i \in 1..Len(page.tabs) : page.tabs[i].href = idSuffix}
  IN IF hits = {} THEN <<>>
     ELSE Trim(page.tabs[CHOOSE i \in hits : \A j \in hits : i <= j].text)

ServerPrefix == <<"S", "e", "r", "v", "e", "r", " ">>

\* A callback that pushes the tab's label as it is, empty or not.
OptionEntryUnnamed(page, opt) ==
  LET optionMatch == OptionMatch(opt.idSuffix)
      iframeSrc == IF Truthy(opt.src) THEN opt.src
                   ELSE IF Truthy(opt.dataSrc) THEN opt.dataSrc
                   ELSE <<>>
  IN IF Len(optionMatch) = 0 \/ ~Truthy(iframeSrc) THEN <<>>
     ELSE <<[server |-> ParseInt(optionMatch),
             name |-> ServerLabel(page, opt.idSuffix),
             url |-> iframeSrc]>>

\* The body of the .each callback: the entries one option block pushes.
OptionEntry(page, opt) ==
  LET optionMatch == OptionMatch(opt.idSuffix)
      serverNumber == ParseInt(optionMatch)
      iframeSrc == IF Truthy(opt.src) THEN opt.src
                   ELSE IF Truthy(opt.dataSrc) THEN opt.dataSrc
                   ELSE <<>>
      serverName == ServerLabel(page, opt.idSuffix)
  IN IF Len(optionMatch) = 0 THEN <<>>
     ELSE IF Truthy(iframeSrc)
     THEN <<[server |-> serverNumber,
             name |-> IF Truthy(serverName) THEN serverName
                      ELSE ServerPrefix \o NumToStr(serverNumber),
             url |-> iframeSrc]>>
     ELSE <<>>

RECURSIVE PushAll(_, _)
PushAll(page, opts) ==
  IF Len(opts) = 0 THEN <<>>
  ELSE OptionEntry(page, Head(opts)) \o PushAll(page, Tail(opts))

\* One entry put into a list sorted by server, after the entries that
\* compare equal to it (Array.prototype.sort is stable).
RECURSIVE InsertSorted(_, _)
InsertSorted(sorted, e) ==
  IF Len(sorted) = 0 THEN <<e>>
  ELSE IF e.server - Head(sorted).server < 0 THEN <<e>> \o sorted
  ELSE <<Head(sorted)>> \o InsertSorted(Tail(sorted), e)

\* servers.sort((a, b) => a.server - b.server)
RECURSIVE SortServers(_)
SortServers(servers) ==
  IF Len(servers) = 0 THEN <<>>
  ELSE InsertSorted(SortServers(SubSeq(servers, 1, Len(servers) - 1)),
                    servers[Len(servers)])

\* extract(html, url): the id is left empty for the caller to set.
extract(page) ==
  [id |-> <<>>, servers |-> SortServers(PushAll(page, page.options))]

(***************************************************************************)
(* Errors and their classification.                                        *)
(***************************************************************************)
\* needle occurs in s: String.prototype.includes
Includes(s, needle) ==
  \E i \in 1..Len(s) - Len(needle) + 1 :
     SubSeq(s, i, i + Len(needle) - 1) = needle

\* An Error as the catch blocks read it: message, response?.status, status
\* and code (0 and "" where the property is undefined).  cause is what
\* happened on the wire and origin the request that failed (a page's, or
\* the metadata API's); the code reads neither.
Err(cause, message, responseStatus, status, code) ==
  [cause |-> cause, origin |-> "page", message |-> message,
   responseStatus |-> responseStatus, status |-> status, code |-> code]

FromApi(e) == [e EXCEPT !.origin = "api"]

NoError == Err("none", <<>>, 0, 0, "")

HttpNotFound == 404

\* What a failed httpClient.get can throw.
FetchErrors ==
  { Err("http404", <<"R", "e", "q", "u", "e", "s", "t", " ", "f", "a", "i", "l", "e", "d", " ", "w", "i", "t", "h", " ", "s", "t", "a", "t", "u", "s", " ", "c", "o", "d", "e", " ", "4", "0", "4">>, HttpNotFound, HttpNotFound, "ERR_BAD_REQUEST"),
    Err("http404", <<"N", "o", "t", " ", "F", "o", "u", "n", "d">>, 0, HttpNotFound, ""),
    Err("http404", <<"H", "T", "T", "P", " ", "4", "0", "4">>, 0, 0, ""),
    Err("http500", <<"R", "e", "q", "u", "e", "s", "t", " ", "f", "a", "i", "l", "e", "d", " ", "w", "i", "t", "h", " ", "s", "t", "a", "t", "u", "s", " ", "c", "o", "d", "e", " ", "5", "0", "0">>, 500, 500, "ERR_BAD_RESPONSE"),
    Err("dns", <<"g", "e", "t", "a", "d", "d", "r", "i", "n", "f", "o", " ", "E", "N", "O", "T", "F", "O", "U", "N", "D", " ", "w", "a", "t", "c", "h", "a", "n", "i", "m", "e", "w", "o", "r", "l", "d", ".", "i", "n">>, 0, 0, "ENOTFOUND"),
    Err("timeout", <<"t", "i", "m", "e", "o", "u", "t", " ", "o", "f", " ", "1", "0", "0", "0", "0", "m", "s", " ", "e", "x", "c", "e", "e", "d", "e", "d">>, 0, 0, "ECONNABORTED"),
    Err("timeout", <<"t", "i", "m", "e", "o", "u", "t", " ", "o", "f", " ", "4", "0", "4", "0", "m", "s", " ", "e", "x", "c", "e", "e", "d", "e", "d">>, 0, 0, "ECONNABORTED"),
    Err("network", <<"s", "o", "c", "k", "e", "t", " ", "h", "a", "n", "g", " ", "u", "p">>, 0, 0, "ECONNRESET"),
    Err("malformed", <<"U", "n", "e", "x", "p", "e", "c", "t", "e", "d", " ", "e", "n", "d", " ", "o", "f", " ", "J", "S", "O", "N", " ", "i", "n", "p", "u", "t">>, 0, 0, "") }

\* A classification that lets every error start the fallback chain.
is404AnyError(error) == TRUE

\* const is404 = error.response?.status === 404 || error.status === 404 ||
\*               error.message?.includes('404') || error.code === 'ENOTFOUND'
is404(error) ==
  \/ error.responseStatus = HttpNotFound
  \/ error.status = HttpNotFound
  \/ Includes(error.message, <<"4", "0", "4">>)
  \/ error.code = "ENOTFOUND"

(***************************************************************************)
(* What the environment can answer.                                        *)
(***************************************************************************)
Opt(idSuffix, src, dataSrc) ==
  [idSuffix |-> idSuffix, src |-> src, dataSrc |-> dataSrc]

Tab(href, text) == [href |-> href, text |-> text]

PageList ==
  << \* two servers out of document order, one named, one with a blank label
     [options |-> <<Opt(<<"2">>, <<"/", "/", "p", "l", "a", "y", ".", "e", "x", "a", "m", "p", "l", "e", "/", "e", "/", "2">>, NullStr),
                    Opt(<<"1">>, <<>>, <<"/", "e", "m", "b", "e", "d", "/", "1">>)>>,
      tabs |-> <<Tab(<<"2">>, <<" ", "P", "l", "a", "y", " ">>), Tab(<<"1">>, <<" ">>)>>],
     \* valid HTML with no options-* block
     [options |-> <<>>, tabs |-> <<>>],
     \* an option block without a frame source
     [options |-> <<Opt(<<"0">>, NullStr, NullStr)>>,
      tabs |-> <<Tab(<<"0">>, <<"H", "D">>)>>],
     \* one server, no tab
     [options |-> <<Opt(<<"1", "0">>, <<"/", "e", "m", "b", "e", "d", "/", "1", "0">>, NullStr)>>, tabs |-> <<>>],
     \* two blocks whose ids yield the same number
     [options |-> <<Opt(<<"0", "1">>, <<"/", "e", "m", "b", "e", "d", "/", "b">>, NullStr),
                    Opt(<<"1">>, <<"/", "e", "m", "b", "e", "d", "/", "a">>, NullStr),
                    Opt(<<"0">>, NullStr, <<"/", "e", "m", "b", "e", "d", "/", "z">>)>>,
      tabs |-> <<Tab(<<"1">>, <<"H", "i", "n", "d", "i">>)>>],
     \* an id without a number beside a good one
     [options |-> <<Opt(<<"x">>, <<"/", "e", "m", "b", "e", "d", "/", "x">>, NullStr),
                    Opt(<<"3">>, <<"/", "e", "m", "b", "e", "d", "/", "3">>, NullStr)>>,
      tabs |-> <<Tab(<<"x">>, <<"X">>), Tab(<<"3">>, <<"M", "u", "l", "t", "i">>)>>],
     [options |-> <<Opt(<<"5">>, <<"/", "e", "m", "b", "e", "d", "/", "5">>, <<"/", "l", "a", "z", "y", "/", "5">>)>>,
      tabs |-> <<Tab(<<"5">>, <<"F", "i", "v", "e">>), Tab(<<"5">>, <<"O", "t", "h", "e", "r">>)>>] >>

Min(a, b) == IF a < b THEN a ELSE b

Pages == {PageList[i] : i \in 1..Min(MaxPages, Len(PageList))}

\* A record of the metadata API: {id, data_id, title}; data_id is a number,
\* a string or absent.
NumId(n) == [t |-> "number", n |-> n, s |-> <<>>]
StrId(s) == [t |-> "string", n |-> 0, s |-> s]
NoId == [t |-> "undefined", n |-> 0, s |-> <<>>]

Rec(id, data_id, title) == [id |-> id, data_id |-> data_id, title |-> title]

\* A response body of the metadata API: an array of records, or something
\* that is no array (an error object, say).
ApiArray(items) == [isArray |-> TRUE, items |-> items]
ApiObject == [isArray |-> FALSE, items |-> <<>>]

ApiList ==
  << ApiArray(<<Rec(<<"s", "p", "y", "-", "x", "-", "f", "a", "m", "i", "l", "y", "-", "1", "0", "0">>, NumId(7), <<"S", "p", "y", " ", "x", " ", "F", "a", "m", "i", "l", "y">>)>>),
     ApiArray(<<>>),
     ApiArray(<<Rec(NullStr, StrId(<<"7">>), <<"D", "r", ".", " ", "S", "T", "O", "N", "E", "_", "2">>)>>),
     ApiObject,
     ApiArray(<<Rec(<<"b", "-", "1">>, NoId, <<>>),
                Rec(<<"c", "-", "2">>, StrId(<<"9">>), NullStr),
                Rec(<<"d", "-", "3">>, NumId(9), <<"O", "n", "e", " ", " ", "P", "i", "e", "c", "e">>)>>),
     ApiArray(<<Rec(<<"e", "-", "4">>, NumId(7), NullStr)>>),
     ApiArray(<<Rec(<<"f", "-", "5">>, NumId(9), <<>>)>>) >>

ApiBodies == {ApiList[i] : i \in 1..Min(MaxApi, Len(ApiList))}

\* How an awaited httpClient.get settles.
Ok(body) == [ok |-> TRUE, body |-> body]

Fail(e) == [ok |-> FALSE, err |-> e]

PageOutcomes == {Ok(p) : p \in Pages} \cup {Fail(e) : e \in FetchErrors}
ApiOutcomes ==
  {Ok(b) : b \in ApiBodies} \cup {Fail(FromApi(e)) : e \in FetchErrors}

\* What the history keeps of a settled request: its URL, and the body of
\* one that succeeded.
Settlement(url, outcome) ==
  IF outcome.ok THEN [url |-> url, ok |-> TRUE, body |-> outcome.body]
  ELSE [url |-> url, ok |-> FALSE]

(***************************************************************************)
(* The URLs of the outbound requests.                                      *)
(***************************************************************************)
\* `${this.base.baseUrl}/episode/${id}/`
EpisodeUrl(id) == [kind |-> "episode", a |-> id, b |-> <<>>]
\* `${this.base.baseUrl}/series/${seriesId}/`
SeriesUrl(seriesId) == [kind |-> "series", a |-> seriesId, b |-> <<>>]
\* `${this.base.baseUrl}/movies/${seriesId}/`
MoviesUrl(seriesId) == [kind |-> "movies", a |-> seriesId, b |-> <<>>]
\* `${this.base.baseUrl}/episode/?data_id=${dataId}&season=${season}`
DataIdUrl(dataId, season) ==
  [kind |-> "episode?data_id", a |-> dataId, b |-> NumToStr(season)]
\* https://anime-api-two-pi.vercel.app/api with params {q}, {id} or none
ApiSearchUrl(animeTitle) == [kind |-> "api?q", a |-> animeTitle, b |-> <<>>]
ApiIdUrl(dataId) == [kind |-> "api?id", a |-> dataId, b |-> <<>>]
ApiAllUrl == [kind |-> "api", a |-> <<>>, b |-> <<>>]

\* The detail pages in the other order.
detailUrlsMoviesFirst(seriesId) == <<MoviesUrl(seriesId), SeriesUrl(seriesId)>>

\* The detail pages without the movie page.
detailUrlsSeriesOnly(seriesId) == <<SeriesUrl(seriesId)>>

\* The detail pages with the series page tried once more after the movie
\* page.
detailUrlsRetry(seriesId) ==
  <<SeriesUrl(seriesId), MoviesUrl(seriesId), SeriesUrl(seriesId)>>

\* Try series first, then movies
detailUrls(seriesId) == <<SeriesUrl(seriesId), MoviesUrl(seriesId)>>

PageKinds == {"episode", "series", "movies", "episode?data_id"}
ApiKinds == {"api?q", "api?id", "api"}

(***************************************************************************)
(* How a call ends.                                                        *)
(***************************************************************************)
Pending == [kind |-> "pending"]
Returned(data) == [kind |-> "returned", data |-> data]
Thrown(error) == [kind |-> "thrown", error |-> error]

Call(op, arg) == [op |-> op, arg |-> arg]

(***************************************************************************)
(* The metadata resolver of getEmbedWithMapping.                           *)
(***************************************************************************)
NoRecord == [kind |-> "null"]

\* searchAnimeInExternalApi: the first record of a non-empty response; null
\* for anything else, and for a request that threw.
searchAnimeInExternalApi(outcome) ==
  IF outcome.ok
  THEN IF Len(outcome.body.items) > 0 THEN outcome.body.items[1] ELSE NoRecord
  ELSE NoRecord

NullId == [t |-> "null", n |-> 0, s |-> <<>>]

\* animeData.data_id || null
DataIdOrNull(data_id) ==
  IF \/ data_id.t = "undefined"
     \/ data_id.t = "number" /\ data_id.n = 0
     \/ data_id.t = "string" /\ Len(data_id.s) = 0
  THEN NullId
  ELSE data_id

NoMapped == [kind |-> "null"]

\* getAnimeIdFromExternalApi, from the parsed identifier and the record the
\* search returned.
MappedData(episodeId, parsed, animeData) ==
  IF parsed.kind = "null" THEN NoMapped
  ELSE IF animeData # NoRecord /\ Truthy(animeData.id)
  THEN [kind |-> "mapped",
        externalApiId |-> animeData.id,
        dataId |-> DataIdOrNull(animeData.data_id),
        episodeId |-> episodeId,
        season |-> parsed.season,
        episode |-> parsed.episode,
        originalTitle |-> IF Truthy(animeData.title) THEN animeData.title
                          ELSE parsed.animeTitle]
  ELSE NoMapped

\* A merger that never attaches the mapping.
GewmOutcomeNoMapping(episodeId, mapped, xfu) ==
  IF xfu.kind = "thrown" THEN Thrown(xfu.error) ELSE Returned(xfu.data)

\* A merger that answers a failed retrieval with the mapping alone.
GewmOutcomeSwallows(episodeId, mapped, xfu) ==
  IF xfu.kind = "thrown"
  THEN IF mapped.kind = "null" THEN Thrown(xfu.error)
       ELSE Returned([id |-> episodeId, servers |-> <<>>,
                      externalApiMapping |-> [animeId |-> mapped.externalApiId]])
  ELSE IF mapped.kind = "null" THEN Returned(xfu.data)
  ELSE Returned([id |-> episodeId, servers |-> xfu.data.servers,
                 externalApiMapping |-> [animeId |-> mapped.externalApiId]])

\* getEmbedWithMapping once extractFromUrl has ended: an error is logged and
\* thrown again, a result is returned as it is or with the mapping attached.
GewmOutcome(episodeId, mapped, xfu) ==
  IF xfu.kind = "thrown" THEN Thrown(xfu.error)
  ELSE IF mapped.kind = "null" THEN Returned(xfu.data)
  ELSE Returned([id |-> episodeId,
                 servers |-> xfu.data.servers,
                 externalApiMapping |->
                   [animeId |-> mapped.externalApiId,
                    dataId |-> mapped.dataId,
                    title |-> mapped.originalTitle,
                    season |-> mapped.season,
                    episode |-> mapped.episode]])

(***************************************************************************)
(* The controller.                                                         *)
(***************************************************************************)
FailedPrefix == <<"F", "a", "i", "l", "e", "d", " ", "t", "o", " ", "e", "x", "t", "r", "a", "c", "t", " ", "e", "m", "b", "e", "d", " ", "d", "a", "t", "a", ":", " ">>

BadRequestError(message) ==
  [kind |-> "error", name |-> "BadRequestError", message |-> message]

HttpOk == 200

\* The try/catch of both endpoints around the extractor's call.
CtlOutcome(outcome) ==
  IF outcome.kind = "returned"
  THEN [kind |-> "json", status |-> HttpOk, body |-> outcome.data]
  ELSE BadRequestError(FailedPrefix \o outcome.error.message)

\* A path parameter that is missing is undefined.
Missing(p) == ~Truthy(p)

(***************************************************************************)
(* The requests of the model.                                              *)
(***************************************************************************)
\* req.params.id of GET by episode identifier (NullStr: the parameter is
\* missing).
IdParams ==
  {NullStr, <<"s", "p", "y", "-", "x", "-", "f", "a", "m", "i", "l", "y", "-", "3", "x", "1">>, <<"o", "n", "e", "-", "p", "i", "e", "c", "e">>, <<"n", "a", "r", "u", "t", "o", "-", "0", "1", "x", "0", "5">>,
   <<"a", "-", "1", "x", "2", "-", "3", "x", "4">>}

\* req.params of GET by (dataId, season, episode).
DataIdParams == {NullStr, <<"7">>, <<"9">>}
SeasonParams == {NullStr, <<"1">>, <<"0", "2">>}
EpisodeParams == {NullStr, <<"1">>, <<"1", "2">>}

\* The arguments of a direct call of getEmbedByDataId.
DirectDataIds == {<<"7">>, <<"9">>}
DirectSeasons == {1, 2}

\* The promise of the metadata request: pending, fulfilled with the
\* response, or rejected.
NoPromise == [state |-> "none"]
PendingPromise == [state |-> "pending"]
SettledPromise(outcome) ==
  IF outcome.ok THEN [state |-> "fulfilled", value |-> outcome.body]
  ELSE [state |-> "rejected"]

\* No page: extract is not called on its own.
NoHtml == [options |-> <<>>, tabs |-> <<>>]

NoParams ==
  [id |-> NullStr, dataId |-> NullStr, season |-> NullStr, episode |-> NullStr]

VARIABLES
  entry,                \* the operation the request entered by
  pc,                   \* the await the request is suspended at
  params,               \* req.params
  calls,                \* the extractor's operations invoked so far, in order
  fetched,              \* the URLs httpClient.get was called with, in order
  settled,              \* the requests that settled, in order
  episodeId,            \* getEmbedWithMapping's argument
  mappedData,           \* getEmbedWithMapping's mappedData
  id,                   \* extractFromUrl's argument
  error,                \* the error the first catch block caught
  lastDetailError,      \* lastDetailError of the loop over detailUrls
  detailIdx,            \* the detailUrl being awaited (1: series, 2: movies)
  xfuRet,               \* how extractFromUrl ended
  dataId,               \* the numeric-id flows' arguments
  season,
  episode,
  apiPromise,           \* the promise of the race's metadata request
  timeoutPromise,       \* the timer of the race
  raceWinner,           \* which of the two settled the race
  animeTitle,           \* the title the metadata gave, or null
  seriesPatterns,       \* the candidate series slugs
  constructedEpisodeId, \* the composite identifier built for the first one
  candIdx,              \* the candidate whose detail page is awaited
  ret,                  \* how the extractor's entry operation ended
  http,                 \* what the controller answered
  html                  \* the page extract is called with on its own

vars ==
  <<entry, pc, params, calls, fetched, settled, episodeId, mappedData, id, error,
    lastDetailError, detailIdx, xfuRet, dataId, season, episode, apiPromise,
    timeoutPromise, raceWinner, animeTitle, seriesPatterns,
    constructedEpisodeId, candIdx, ret, http, html>>

\* The variables of extractFromUrl and getEmbedWithMapping.
mappingVars == <<episodeId, mappedData, id, xfuRet>>

\* The variables of the numeric-id flows.
dataIdVars ==
  <<dataId, season, episode, animeTitle, seriesPatterns, constructedEpisodeId,
    candIdx>>

raceVars == <<apiPromise, timeoutPromise, raceWinner>>

Init ==
  /\ \/ /\ entry = "getEmbed"
        /\ \E p \in IdParams : params = [NoParams EXCEPT !.id = p]
        /\ dataId = NullStr
        /\ season = 0
     \/ /\ entry = "getEmbedByDataIdAndEpisode"
        /\ \E d \in DataIdParams, s \in SeasonParams, e \in EpisodeParams :
              params = [NoParams EXCEPT !.dataId = d, !.season = s,
                                        !.episode = e]
        /\ dataId = NullStr
        /\ season = 0
     \/ /\ entry = "getEmbedByDataId"
        /\ params = NoParams
        /\ dataId \in DirectDataIds
        /\ season \in DirectSeasons
  /\ episode = 0
  /\ apiPromise = NoPromise
  /\ timeoutPromise = "none"
  /\ raceWinner = "none"
  /\ animeTitle = NullStr
  /\ seriesPatterns = <<>>
  /\ constructedEpisodeId = NullStr
  /\ candIdx = 0
  /\ pc = "start"
  /\ calls = <<>>
  /\ fetched = <<>>
  /\ settled = <<>>
  /\ episodeId = NullStr
  /\ mappedData = NoMapped
  /\ id = NullStr
  /\ error = NoError
  /\ lastDetailError = NoError
  /\ detailIdx = 0
  /\ xfuRet = Pending
  /\ ret = Pending
  /\ http = Pending
  /\ html = NoHtml

(***************************************************************************)
(* GET by episode identifier: EmbedController.getEmbed,                    *)
(* getEmbedWithMapping, getAnimeIdFromExternalApi and extractFromUrl.      *)
(***************************************************************************)
\* The awaited request, the last one made, settles.
Settles(outcome) ==
  settled' = settled \o <<Settlement(fetched[Len(fetched)], outcome)>>

\* A result that carries the series slug the detail pages were built from.
PageDataSeriesId(page, forId) ==
  [extract(page) EXCEPT !.id = getSeriesIdFromEpisodeId(forId)]

\* data = await this.extract(html, url); data.id = id
PageData(page, forId) == [extract(page) EXCEPT !.id = forId]

\* A try block that takes a page without servers for a failure.
TryPageRejectEmpty(outcome, forId) ==
  IF outcome.ok
  THEN IF Len(extract(outcome.body).servers) = 0
       THEN Thrown(Err("empty", <<"N", "o", " ", "s", "e", "r", "v", "e", "r", "s", " ", "f", "o", "u", "n", "d">>, 0, 0, ""))
       ELSE Returned([extract(outcome.body) EXCEPT !.id = forId])
  ELSE Thrown(outcome.err)

\* One try block of extractFromUrl around a request that has settled: the
\* page's data with the id set is returned, or the request's error caught.
TryPage(outcome, forId) ==
  IF outcome.ok THEN Returned(PageData(outcome.body, forId))
  ELSE Thrown(outcome.err)

\* An endpoint that does not look at its parameter.
GetEmbedParamsUnchecked(p) == FALSE

\* if (!id) of getEmbed
GetEmbedParamsMissing(p) == Missing(p.id)

\* if (!dataId || !season || !episode) of getEmbedByDataIdAndEpisode
ByDataIdParamsMissing(p) ==
  Missing(p.dataId) \/ Missing(p.season) \/ Missing(p.episode)

\* extractFromUrl is entered: its first request is the episode page's.
CallExtractFromUrl(before, arg) ==
  /\ calls' = before \o <<Call("extractFromUrl", arg)>>
  /\ id' = arg
  /\ fetched' = fetched \o <<EpisodeUrl(arg)>>
  /\ pc' = "await episode"

\* extractFromUrl ends, and with it getEmbedWithMapping and the endpoint.
EndExtractFromUrl(outcome) ==
  /\ xfuRet' = outcome
  /\ ret' = GewmOutcome(episodeId, mappedData, outcome)
  /\ http' = CtlOutcome(GewmOutcome(episodeId, mappedData, outcome))
  /\ pc' = "done"

\* The endpoint runs up to its first await: without an id it throws before
\* the extractor exists; getAnimeIdFromExternalApi searches only for an
\* identifier that parses.
CtlGetEmbed ==
  /\ pc = "start"
  /\ entry = "getEmbed"
  /\ IF GetEmbedParamsMissing(params)
     THEN /\ http' = BadRequestError(FailedPrefix \o <<"I", "D", " ", "p", "a", "r", "a", "m", "e", "t", "e", "r", " ", "i", "s", " ", "r", "e", "q", "u", "i", "r", "e", "d">>)
          /\ pc' = "done"
          /\ UNCHANGED <<calls, fetched, episodeId, mappedData, id>>
     ELSE /\ episodeId' = params.id
          /\ UNCHANGED http
          /\ IF parseEpisodeId(params.id).kind = "null"
             THEN /\ mappedData' = NoMapped
                  /\ CallExtractFromUrl(
                       <<Call("getEmbedWithMapping", params.id)>>, params.id)
             ELSE /\ calls' = <<Call("getEmbedWithMapping", params.id),
                                Call("searchAnimeInExternalApi",
                                     parseEpisodeId(params.id).animeTitle)>>
                  /\ fetched' = fetched \o
                       <<ApiSearchUrl(parseEpisodeId(params.id).animeTitle)>>
                  /\ pc' = "await search"
                  /\ UNCHANGED <<mappedData, id>>
  /\ UNCHANGED <<entry, html, params, settled, error, lastDetailError, detailIdx,
                 xfuRet, ret, dataIdVars, raceVars>>

\* The search settles; whatever it gave, extractFromUrl is called with the
\* identifier of the request.
SearchSettles(outcome) ==
  /\ pc = "await search"
  /\ Settles(outcome)
  /\ mappedData' = MappedData(episodeId, parseEpisodeId(episodeId),
                              searchAnimeInExternalApi(outcome))
  /\ CallExtractFromUrl(calls, episodeId)
  /\ UNCHANGED <<entry, html, params, episodeId, error, lastDetailError, detailIdx,
                 xfuRet, ret, http, dataIdVars, raceVars>>

\* The episode page's request settles.
EpisodeSettles(outcome) ==
  /\ pc = "await episode"
  /\ Settles(outcome)
  /\ IF TryPage(outcome, id).kind = "returned"
     THEN /\ EndExtractFromUrl(TryPage(outcome, id))
          /\ UNCHANGED <<error, fetched, detailIdx>>
     ELSE /\ error' = TryPage(outcome, id).error
          /\ IF is404(TryPage(outcome, id).error)
             THEN /\ fetched' = fetched \o
                       <<detailUrls(getSeriesIdFromEpisodeId(id))[1]>>
                  /\ detailIdx' = 1
                  /\ pc' = "await detail"
                  /\ UNCHANGED <<xfuRet, ret, http>>
             ELSE /\ EndExtractFromUrl(Thrown(TryPage(outcome, id).error))
                  /\ UNCHANGED <<fetched, detailIdx>>
  /\ UNCHANGED <<entry, html, params, calls, episodeId, mappedData, id,
                 lastDetailError, dataIdVars, raceVars>>

\* A loop over the detail pages that, when both have failed, throws the
\* episode page's error.
DetailSettlesThrowsOriginal(outcome) ==
  /\ pc = "await detail"
  /\ Settles(outcome)
  /\ IF TryPage(outcome, id).kind = "returned"
     THEN /\ EndExtractFromUrl(TryPage(outcome, id))
          /\ UNCHANGED <<lastDetailError, fetched, detailIdx>>
     ELSE /\ lastDetailError' = TryPage(outcome, id).error
          /\ IF detailIdx < Len(detailUrls(getSeriesIdFromEpisodeId(id)))
             THEN /\ fetched' = fetched \o
                       <<detailUrls(getSeriesIdFromEpisodeId(id))[detailIdx + 1]>>
                  /\ detailIdx' = detailIdx + 1
                  /\ UNCHANGED <<pc, xfuRet, ret, http>>
             ELSE /\ EndExtractFromUrl(Thrown(error))
                  /\ UNCHANGED <<fetched, detailIdx>>
  /\ UNCHANGED <<entry, html, params, calls, episodeId, mappedData, id, error,
                 dataIdVars, raceVars>>

\* A detail page's request settles: the series page's, then the movie
\* page's.
DetailSettles(outcome) ==
  /\ pc = "await detail"
  /\ Settles(outcome)
  /\ IF TryPage(outcome, id).kind = "returned"
     THEN /\ EndExtractFromUrl(TryPage(outcome, id))
          /\ UNCHANGED <<lastDetailError, fetched, detailIdx>>
     ELSE /\ lastDetailError' = TryPage(outcome, id).error
          /\ IF detailIdx < Len(detailUrls(getSeriesIdFromEpisodeId(id)))
             THEN /\ fetched' = fetched \o
                       <<detailUrls(getSeriesIdFromEpisodeId(id))[detailIdx + 1]>>
                  /\ detailIdx' = detailIdx + 1
                  /\ UNCHANGED <<pc, xfuRet, ret, http>>
             ELSE /\ EndExtractFromUrl(Thrown(TryPage(outcome, id).error))
                  /\ UNCHANGED <<fetched, detailIdx>>
  /\ UNCHANGED <<entry, html, params, calls, episodeId, mappedData, id, error,
                 dataIdVars, raceVars>>

(***************************************************************************)
(* From a title to a series slug.                                          *)
(***************************************************************************)
UpperChars ==
  <<"A", "B", "C", "D", "E", "F", "G", "H", "I", "J", "K", "L", "M", "N",
    "O", "P", "Q", "R", "S", "T", "U", "V", "W", "X", "Y", "Z">>
LowerChars ==
  <<"a", "b", "c", "d", "e", "f", "g", "h", "i", "j", "k", "l", "m", "n",
    "o", "p", "q", "r", "s", "t", "u", "v", "w", "x", "y", "z">>

LowerOf(c) ==
  IF \E i \in 1..Len(UpperChars) : UpperChars[i] = c
  THEN LowerChars[CHOOSE i \in 1..Len(UpperChars) : UpperChars[i] = c]
  ELSE c

\* String.prototype.toLowerCase
ToLowerCase(s) == [i \in 1..Len(s) |-> LowerOf(s[i])]

\* \w of a regular expression
WordChars ==
  {UpperChars[i] : i \in 1..Len(UpperChars)}
    \cup {LowerChars[i] : i \in 1..Len(LowerChars)}
    \cup DigitChars \cup {"_"}

\* s.replace(/\s+/g, '-')
RECURSIVE ReplaceWhiteSpace(_)
ReplaceWhiteSpace(s) ==
  IF Len(s) = 0 THEN <<>>
  ELSE IF s[1] \in WhiteSpace
  THEN <<"-">> \o ReplaceWhiteSpace(TrimLeft(s))
  ELSE <<s[1]>> \o ReplaceWhiteSpace(Tail(s))

\* s.replace(/[^\w-]/g, '')
StripNonWord(s) == SelectSeq(s, LAMBDA c : c \in WordChars \cup {"-"})

\* getEmbedByDataIdAndEpisode:
\* animeTitle.toLowerCase().replace(/\s+/g, '-').replace(/[^\w-]/g, '')
TitleSlug(title) == StripNonWord(ReplaceWhiteSpace(ToLowerCase(title)))

\* getEmbedByDataId: title.toLowerCase().replace(/\s+/g, '-')
TitleSeriesId(title) == ReplaceWhiteSpace(ToLowerCase(title))

\* constructCommonSeriesIds
PopularSlugs ==
  << <<"o", "n", "e", "-", "p", "u", "n", "c", "h", "-", "m", "a", "n">>,
     <<"o", "n", "e", "-", "p", "i", "e", "c", "e">>,
     <<"n", "a", "r", "u", "t", "o">>,
     <<"b", "l", "e", "a", "c", "h">>,
     <<"d", "e", "m", "o", "n", "-", "s", "l", "a", "y", "e", "r">>,
     <<"j", "u", "j", "u", "t", "s", "u", "-", "k", "a", "i", "s", "e", "n">>,
     <<"a", "t", "t", "a", "c", "k", "-", "o", "n", "-", "t", "i", "t", "a", "n">>,
     <<"m", "y", "-", "h", "e", "r", "o", "-", "a", "c", "a", "d", "e", "m", "i", "a">>,
     <<"d", "r", "a", "g", "o", "n", "-", "b", "a", "l", "l", "-", "s", "u", "p", "e", "r">>,
     <<"s", "p", "y", "-", "x", "-", "f", "a", "m", "i", "l", "y">>,
     <<"f", "i", "r", "e", "-", "f", "o", "r", "c", "e">>,
     <<"c", "h", "a", "i", "n", "s", "a", "w", "-", "m", "a", "n">>,
     <<"h", "u", "n", "t", "e", "r", "-", "x", "-", "h", "u", "n", "t", "e", "r">>,
     <<"s", "o", "l", "o", "-", "l", "e", "v", "e", "l", "i", "n", "g">> >>

\* String(item.data_id)
JsString(data_id) ==
  CASE data_id.t = "number" -> NumToStr(data_id.n)
    [] data_id.t = "string" -> data_id.s
    [] data_id.t = "null" -> <<"n", "u", "l", "l">>
    [] OTHER -> <<"u", "n", "d", "e", "f", "i", "n", "e", "d">>

\* response.find(item => String(item.data_id) === String(dataId)), and the
\* title of what it finds: null unless the response is an array holding
\* such a record with a title.
FoundTitle(body, forDataId) ==
  LET hits == {i \in 1..Len(body.items) :
                 JsString(body.items[i].data_id) = forDataId}
      anime == body.items[CHOOSE i \in hits : \A j \in hits : i <= j]
  IN IF body.isArray /\ hits # {} /\ Truthy(anime.title)
     THEN anime.title
     ELSE NullStr

\* const seriesPatterns = animeTitle ? [slug of the title] : the popular ones
SeriesPatterns(title) ==
  IF Truthy(title) THEN <<TitleSlug(title)>> ELSE PopularSlugs

UnknownTitle == <<"U", "n", "k", "n", "o", "w", "n">>

(***************************************************************************)
(* GET by (dataId, season, episode):                                       *)
(* EmbedController.getEmbedByDataIdAndEpisode and the extractor's          *)
(* getEmbedByDataIdAndEpisode.                                             *)
(***************************************************************************)
\* The endpoint runs up to its first await: with a parameter missing it
\* throws before the extractor exists; otherwise the metadata request and
\* its timer start.
CtlGetEmbedByDataIdAndEpisode ==
  /\ pc = "start"
  /\ entry = "getEmbedByDataIdAndEpisode"
  /\ IF ByDataIdParamsMissing(params)
     THEN /\ http' = BadRequestError(FailedPrefix \o
                       <<"d", "a", "t", "a", "I", "d", ",", " ", "s", "e", "a", "s", "o", "n", ",", " ", "a", "n", "d", " ", "e", "p", "i", "s", "o", "d", "e", " ", "p", "a", "r", "a", "m", "e", "t", "e", "r", "s", " ", "a", "r", "e", " ", "r", "e", "q", "u", "i", "r", "e", "d">>)
          /\ pc' = "done"
          /\ UNCHANGED <<calls, fetched, dataId, season, episode, apiPromise,
                         timeoutPromise>>
     ELSE /\ calls' = <<Call("getEmbedByDataIdAndEpisode", params.dataId)>>
          /\ dataId' = params.dataId
          /\ season' = ParseInt(params.season)
          /\ episode' = ParseInt(params.episode)
          /\ fetched' = <<ApiAllUrl>>
          /\ apiPromise' = PendingPromise
          /\ timeoutPromise' = "pending"
          /\ pc' = "await race"
          /\ UNCHANGED http
  /\ UNCHANGED <<entry, html, params, settled, mappingVars, error, lastDetailError,
                 detailIdx, raceWinner, animeTitle, seriesPatterns,
                 constructedEpisodeId, candIdx, ret>>

\* After the race, with the title it gave or null: the candidates, the
\* composite identifier of the first one, and the request of its episode
\* page.
AfterRace(title) ==
  /\ animeTitle' = title
  /\ seriesPatterns' = SeriesPatterns(title)
  /\ constructedEpisodeId' =
       ComposeEpisodeId(SeriesPatterns(title)[1], season, episode)
  /\ fetched' = fetched \o
       <<EpisodeUrl(ComposeEpisodeId(SeriesPatterns(title)[1], season, episode))>>
  /\ pc' = "await constructed episode"
  /\ UNCHANGED <<entry, html, params, calls, mappingVars, error, lastDetailError,
                 detailIdx, dataId, season, episode, candIdx, ret, http>>

\* The metadata request settles first: Promise.race settles as it did, and
\* a rejection is caught and logged.
RaceApiSettles(outcome) ==
  /\ pc = "await race"
  /\ settled' = settled \o <<Settlement(ApiAllUrl, outcome)>>
  /\ apiPromise' = SettledPromise(outcome)
  /\ raceWinner' = "api"
  /\ UNCHANGED timeoutPromise
  /\ AfterRace(IF outcome.ok THEN FoundTitle(outcome.body, dataId) ELSE NullStr)

\* A timer whose rejection nothing awaits: the request goes on waiting for
\* the metadata.
TimerFiresUnraced ==
  /\ pc = "await race"
  /\ timeoutPromise = "pending"
  /\ timeoutPromise' = "rejected"
  /\ UNCHANGED <<entry, html, pc, params, calls, fetched, settled, mappingVars,
                 error, lastDetailError, detailIdx, dataIdVars, apiPromise,
                 raceWinner, ret, http>>

\* The timer fires first: Promise.race rejects with 'API timeout', which is
\* caught and logged; the metadata request stays in flight.
RaceTimerFires ==
  /\ pc = "await race"
  /\ UNCHANGED settled
  /\ timeoutPromise' = "rejected"
  /\ raceWinner' = "timer"
  /\ UNCHANGED apiPromise
  /\ AfterRace(NullStr)

\* A late response that is taken for the title after all.
LateApiSettlesActs(outcome) ==
  /\ raceWinner = "timer"
  /\ apiPromise = PendingPromise
  /\ apiPromise' = SettledPromise(outcome)
  /\ animeTitle' = IF outcome.ok THEN FoundTitle(outcome.body, dataId)
                   ELSE animeTitle
  /\ UNCHANGED <<entry, html, pc, params, calls, fetched, settled, mappingVars,
                 error, lastDetailError, detailIdx, dataId, season, episode,
                 seriesPatterns, constructedEpisodeId, candIdx, timeoutPromise,
                 raceWinner, ret, http>>

\* The metadata request settles after the timer won the race: nothing
\* awaits it any more.
LateApiSettles(outcome) ==
  /\ raceWinner = "timer"
  /\ apiPromise = PendingPromise
  /\ apiPromise' = SettledPromise(outcome)
  /\ UNCHANGED <<entry, html, pc, params, calls, fetched, settled, mappingVars, error,
                 lastDetailError, detailIdx, dataIdVars, timeoutPromise,
                 raceWinner, ret, http>>

\* The timer fires after the metadata request won the race.
LateTimerFires ==
  /\ raceWinner = "api"
  /\ timeoutPromise = "pending"
  /\ timeoutPromise' = "rejected"
  /\ UNCHANGED <<entry, html, pc, params, calls, fetched, settled, mappingVars, error,
                 lastDetailError, detailIdx, dataIdVars, apiPromise,
                 raceWinner, ret, http>>

\* What getEmbedByDataIdAndEpisode returns for a page.
GdeData(page) ==
  [id |-> dataId \o <<"/">> \o NumToStr(season) \o <<"/">> \o NumToStr(episode),
   servers |-> extract(page).servers,
   externalApiMapping |->
     [dataId |-> dataId,
      season |-> season,
      episode |-> episode,
      title |-> IF Truthy(animeTitle) THEN animeTitle ELSE UnknownTitle,
      constructedId |-> constructedEpisodeId]]

\* getEmbedByDataIdAndEpisode ends, and with it the endpoint.
EndGde(outcome) ==
  /\ ret' = outcome
  /\ http' = CtlOutcome(outcome)
  /\ pc' = "done"

\* new Error(`Could not find any page for data_id: ${dataId}`)
NoPageError ==
  Err("exhausted", <<"C", "o", "u", "l", "d", " ", "n", "o", "t", " ", "f", "i", "n", "d", " ", "a", "n", "y", " ", "p", "a", "g", "e", " ", "f", "o", "r", " ", "d", "a", "t", "a", "_", "i", "d", ":", " ">> \o dataId, 0, 0, "")

\* The constructed episode page's request settles: any failure starts the
\* loop over the candidates' detail pages.
GdeEpisodeSettles(outcome) ==
  /\ pc = "await constructed episode"
  /\ Settles(outcome)
  /\ IF outcome.ok
     THEN /\ EndGde(Returned(GdeData(outcome.body)))
          /\ UNCHANGED <<fetched, candIdx, detailIdx>>
     ELSE /\ candIdx' = 1
          /\ detailIdx' = 1
          /\ fetched' = fetched \o <<detailUrls(seriesPatterns[1])[1]>>
          /\ pc' = "await candidate detail"
          /\ UNCHANGED <<ret, http>>
  /\ UNCHANGED <<entry, html, params, calls, mappingVars, error, lastDetailError,
                 dataId, season, episode, animeTitle, seriesPatterns,
                 constructedEpisodeId, raceVars>>

\* A candidate's detail page settles: a failure is logged and the loops go
\* on, to the candidate's movie page or to the next candidate's series page.
GdeDetailSettles(outcome) ==
  /\ pc = "await candidate detail"
  /\ Settles(outcome)
  /\ IF outcome.ok
     THEN /\ EndGde(Returned(GdeData(outcome.body)))
          /\ UNCHANGED <<fetched, candIdx, detailIdx>>
     ELSE IF detailIdx < Len(detailUrls(seriesPatterns[candIdx]))
     THEN /\ detailIdx' = detailIdx + 1
          /\ fetched' = fetched \o
               <<detailUrls(seriesPatterns[candIdx])[detailIdx + 1]>>
          /\ UNCHANGED <<pc, candIdx, ret, http>>
     ELSE IF candIdx < Len(seriesPatterns)
     THEN /\ candIdx' = candIdx + 1
          /\ detailIdx' = 1
          /\ fetched' = fetched \o <<detailUrls(seriesPatterns[candIdx + 1])[1]>>
          /\ UNCHANGED <<pc, ret, http>>
     ELSE /\ EndGde(Thrown(NoPageError))
          /\ UNCHANGED <<fetched, candIdx, detailIdx>>
  /\ UNCHANGED <<entry, html, params, calls, mappingVars, error, lastDetailError,
                 dataId, season, episode, animeTitle, seriesPatterns,
                 constructedEpisodeId, raceVars>>

(***************************************************************************)
(* getEmbedByDataId(dataId, season), called directly.                      *)
(***************************************************************************)
CallGetEmbedByDataId ==
  /\ pc = "start"
  /\ entry = "getEmbedByDataId"
  /\ calls' = <<Call("getEmbedByDataId", dataId)>>
  /\ fetched' = <<DataIdUrl(dataId, season)>>
  /\ pc' = "await data_id page"
  /\ UNCHANGED <<entry, html, params, settled, mappingVars, error, lastDetailError,
                 detailIdx, dataIdVars, raceVars, ret, http>>

\* What getEmbedByDataId returns for a page; the title is attached when the
\* page is a detail page.
GdiData(page, withTitle) ==
  [id |-> dataId \o <<"-", "s", "e", "a", "s", "o", "n", "-">> \o NumToStr(season),
   servers |-> extract(page).servers,
   externalApiMapping |->
     IF withTitle
     THEN [dataId |-> dataId, season |-> season, title |-> animeTitle]
     ELSE [dataId |-> dataId, season |-> season]]

\* The data_id page's request settles: on any failure the metadata API is
\* asked for the record of the id, outside any try block of its own.
GdiPageSettles(outcome) ==
  /\ pc = "await data_id page"
  /\ Settles(outcome)
  /\ IF outcome.ok
     THEN /\ ret' = Returned(GdiData(outcome.body, FALSE))
          /\ pc' = "done"
          /\ UNCHANGED <<error, fetched>>
     ELSE /\ error' = outcome.err
          /\ fetched' = fetched \o <<ApiIdUrl(dataId)>>
          /\ pc' = "await id search"
          /\ UNCHANGED ret
  /\ UNCHANGED <<entry, html, params, calls, mappingVars, lastDetailError, detailIdx,
                 dataIdVars, raceVars, http>>

\* The metadata request settles: its error leaves the operation as it is;
\* an empty answer throws the page's error; a record gives the series id
\* whose detail pages are tried.
GdiSearchSettles(outcome) ==
  /\ pc = "await id search"
  /\ Settles(outcome)
  /\ IF ~outcome.ok
     THEN /\ ret' = Thrown(outcome.err)
          /\ pc' = "done"
          /\ UNCHANGED <<animeTitle, seriesPatterns, detailIdx, fetched>>
     ELSE IF Len(outcome.body.items) > 0
     THEN /\ animeTitle' = outcome.body.items[1].title
          /\ seriesPatterns' =
               <<TitleSeriesId(IF Truthy(outcome.body.items[1].title)
                               THEN outcome.body.items[1].title ELSE <<>>)>>
          /\ detailIdx' = 1
          /\ fetched' = fetched \o
               <<detailUrls(TitleSeriesId(
                    IF Truthy(outcome.body.items[1].title)
                    THEN outcome.body.items[1].title ELSE <<>>))[1]>>
          /\ pc' = "await data_id detail"
          /\ UNCHANGED ret
     ELSE /\ ret' = Thrown(error)
          /\ pc' = "done"
          /\ UNCHANGED <<animeTitle, seriesPatterns, detailIdx, fetched>>
  /\ UNCHANGED <<entry, html, params, calls, mappingVars, error, lastDetailError,
                 dataId, season, episode, constructedEpisodeId, candIdx,
                 raceVars, http>>

\* A detail page's request settles.
GdiDetailSettles(outcome) ==
  /\ pc = "await data_id detail"
  /\ Settles(outcome)
  /\ IF outcome.ok
     THEN /\ ret' = Returned(GdiData(outcome.body, TRUE))
          /\ pc' = "done"
          /\ UNCHANGED <<lastDetailError, detailIdx, fetched>>
     ELSE /\ lastDetailError' = outcome.err
          /\ IF detailIdx < Len(detailUrls(seriesPatterns[1]))
             THEN /\ detailIdx' = detailIdx + 1
                  /\ fetched' = fetched \o
                       <<detailUrls(seriesPatterns[1])[detailIdx + 1]>>
                  /\ UNCHANGED <<pc, ret>>
             ELSE /\ ret' = Thrown(outcome.err)
                  /\ pc' = "done"
                  /\ UNCHANGED <<detailIdx, fetched>>
  /\ UNCHANGED <<entry, html, params, calls, mappingVars, error, dataIdVars,
                 raceVars, http>>

(***************************************************************************)
(* The specifications.                                                     *)
(***************************************************************************)
Next ==
  \/ CtlGetEmbed
  \/ \E o \in ApiOutcomes : SearchSettles(o)
  \/ \E o \in PageOutcomes : EpisodeSettles(o)
  \/ \E o \in PageOutcomes : DetailSettles(o)
  \/ CtlGetEmbedByDataIdAndEpisode
  \/ \E o \in ApiOutcomes : RaceApiSettles(o)
  \/ RaceTimerFires
  \/ \E o \in ApiOutcomes : LateApiSettles(o)
  \/ LateTimerFires
  \/ \E o \in PageOutcomes : GdeEpisodeSettles(o)
  \/ \E o \in PageOutcomes : GdeDetailSettles(o)
  \/ CallGetEmbedByDataId
  \/ \E o \in PageOutcomes : GdiPageSettles(o)
  \/ \E o \in ApiOutcomes : GdiSearchSettles(o)
  \/ \E o \in PageOutcomes : GdiDetailSettles(o)

Spec == Init /\ [][Next]_vars

\* The event loop runs the timer's callback once its 5000 ms have passed;
\* nothing makes a request to the metadata API settle.
FairSpec == Spec /\ WF_vars(RaceTimerFires)

\* Every request that was issued settles, and the event loop runs the
\* handler that awaits it: no step that can be taken is put off for ever.
SettlingSpec == Spec /\ WF_vars(Next)

(***************************************************************************)
(* The pure operations of the extractor called on their own: extract on    *)
(* every page of a bounded set.                                            *)
(***************************************************************************)
\* How many option blocks a page given to extract holds at most.
MaxOptions == 3

\* The variables of the request flows while no request is made.
AtRest ==
  /\ params = NoParams
  /\ calls = <<>>
  /\ fetched = <<>>
  /\ settled = <<>>
  /\ mappedData = NoMapped
  /\ id = NullStr
  /\ error = NoError
  /\ lastDetailError = NoError
  /\ detailIdx = 0
  /\ xfuRet = Pending
  /\ dataId = NullStr
  /\ season = 0
  /\ episode = 0
  /\ apiPromise = NoPromise
  /\ timeoutPromise = "none"
  /\ raceWinner = "none"
  /\ animeTitle = NullStr
  /\ seriesPatterns = <<>>
  /\ constructedEpisodeId = NullStr
  /\ candIdx = 0
  /\ http = Pending

restVars ==
  <<params, calls, fetched, settled, mappedData, id, error, lastDetailError,
    detailIdx, xfuRet, dataId, season, episode, apiPromise, timeoutPromise,
    raceWinner, animeTitle, seriesPatterns, constructedEpisodeId, candIdx,
    http>>

\* The sequences over S of a length up to n.
SeqsUpTo(S, n) == UNION {[1..k -> S] : k \in 0..n}

\* What follows "options-" in the id of an option block: a number, a number
\* with a leading zero that denotes the same, and no number.
OptionIds == {<<"1">>, <<"2">>, <<"0", "1">>, <<"x">>}

\* The src and the data-src of the first iframe of an option block: no
\* iframe, a src, and an empty src beside a data-src.
Frames ==
  { <<NullStr, NullStr>>,
    <<<<"/", "/", "p", "l", "a", "y", ".", "e", "x", "a", "m", "p", "l", "e", "/", "e">>, NullStr>>,
    <<<<>>, <<"/", "l", "a", "z", "y">>>> }

Options == {Opt(i, f[1], f[2]) : i \in OptionIds, f \in Frames}

\* The tab links of a page: none; labels with blanks around them and a
\* blank label; an empty label before another one for the same block; a
\* label for the block without a number.
TabLists ==
  { <<>>,
    <<Tab(<<"1">>, <<" ", "H", "D", " ">>), Tab(<<"2">>, <<" ", " ">>)>>,
    <<Tab(<<"0", "1">>, <<"H", "i", "n", "d", "i">>), Tab(<<"1">>, <<>>), Tab(<<"1">>, <<"L", "a", "t", "e">>)>>,
    <<Tab(<<"x">>, <<"X">>), Tab(<<"2">>, <<"\t">>)>> }

HtmlInputs ==
  {[options |-> o, tabs |-> t] : o \in SeqsUpTo(Options, MaxOptions),
                                 t \in TabLists}

ExtractInit ==
  /\ entry = "extract"
  /\ pc = "start"
  /\ html \in HtmlInputs
  /\ episodeId = NullStr
  /\ ret = Pending
  /\ AtRest

\* extract(html, url) is called and returns.
CallExtract ==
  /\ pc = "start"
  /\ entry = "extract"
  /\ ret' = Returned(extract(html))
  /\ pc' = "done"
  /\ UNCHANGED <<entry, html, episodeId, restVars>>

ExtractNext == CallExtract

ExtractSpec == ExtractInit /\ [][ExtractNext]_vars

(***************************************************************************)
(* The identifier codec called on its own: parseEpisodeId and              *)
(* getSeriesIdFromEpisodeId on every identifier of a bounded set.          *)
(***************************************************************************)
\* The length of an identifier made of any characters of IdChars.
MaxIdLen == 5
\* The length of the slug of a composite identifier.
MaxSlugLen == 5

\* The characters of an identifier: a letter, the separators of the
\* composite, digits, and a line terminator ("." does not match it).
IdChars == {"a", "-", "x", "0", "1", "\n"}

\* The characters of a slug: a slug may hold hyphens, digits and an inner
\* "-<n>x<m>" group.
SlugChars == {"a", "-", "x", "1"}

Slugs == SeqsUpTo(SlugChars, MaxSlugLen) \ {<<>>}

\* Seasons and episodes: zero, one digit, two digits with and without a
\* zero at the end.
Numbers == {0, 1, 10, 12}

\* `${slug}-${season}x${episode}` for every slug, season and episode.
CompositeIds ==
  {ComposeEpisodeId(slug, s, e) : slug \in Slugs, s \in Numbers, e \in Numbers}

EpisodeIdInputs == SeqsUpTo(IdChars, MaxIdLen) \cup CompositeIds

CodecInit ==
  /\ entry \in {"parseEpisodeId", "getSeriesIdFromEpisodeId"}
  /\ pc = "start"
  /\ episodeId \in EpisodeIdInputs
  /\ html = NoHtml
  /\ ret = Pending
  /\ AtRest

\* parseEpisodeId(episodeId) is called and returns.
CallParseEpisodeId ==
  /\ pc = "start"
  /\ entry = "parseEpisodeId"
  /\ ret' = Returned(parseEpisodeId(episodeId))
  /\ pc' = "done"
  /\ UNCHANGED <<entry, html, episodeId, restVars>>

\* getSeriesIdFromEpisodeId(episodeId) is called and returns.
CallGetSeriesIdFromEpisodeId ==
  /\ pc = "start"
  /\ entry = "getSeriesIdFromEpisodeId"
  /\ ret' = Returned(getSeriesIdFromEpisodeId(episodeId))
  /\ pc' = "done"
  /\ UNCHANGED <<entry, html, episodeId, restVars>>

CodecNext ==
  \/ CallParseEpisodeId
  \/ CallGetSeriesIdFromEpisodeId

CodecSpec == CodecInit /\ [][CodecNext]_vars

(***************************************************************************)
(* What the properties read off the history.                               *)
(***************************************************************************)
\* The page requests made so far, and the page requests that settled.
PageFetches == SelectSeq(fetched, LAMBDA u : u.kind \in PageKinds)
PageSettled == SelectSeq(settled, LAMBDA r : r.url.kind \in PageKinds)

KindsOf(urls) == [i \in 1..Len(urls) |-> urls[i].kind]

IsPrefix(s, t) == Len(s) <= Len(t) /\ \A i \in 1..Len(s) : s[i] = t[i]

\* The option blocks of a page that carry a number and a frame source.
GoodOptions(page) ==
  {i \in 1..Len(page.options) :
     /\ Len(page.options[i].idSuffix) > 0
     /\ page.options[i].idSuffix[1] \in DigitChars
     /\ \/ Truthy(page.options[i].src)
        \/ Truthy(page.options[i].dataSrc)}

\* The frame source of an option block: src, or else data-src.
SourceOf(opt) == IF Truthy(opt.src) THEN opt.src ELSE opt.dataSrc

\* The number an option block's id starts with.
NumberOf(opt) ==
  LET n == CHOOSE k \in 1..Len(opt.idSuffix) :
             /\ \A i \in 1..k : opt.idSuffix[i] \in DigitChars
             /\ k = Len(opt.idSuffix) \/ opt.idSuffix[k + 1] \notin DigitChars
  IN ParseInt(SubSeq(opt.idSuffix, 1, n))

(***************************************************************************)
(* C1.  In extractFromUrl(id) the page requests are made in the order      *)
(* episode page, series page, movie page, and the first request that       *)
(* succeeds ends the operation: no page is requested after a page request  *)
(* that succeeded.                                                         *)
(***************************************************************************)
C1_OrderedFirstSuccessWins ==
  entry = "getEmbed" =>
    /\ IsPrefix(KindsOf(PageFetches), <<"episode", "series", "movies">>)
    /\ \A i \in 1..Len(PageFetches) : i = 1 => PageFetches[i].a = params.id
    /\ \A i \in 1..Len(PageSettled) :
         PageSettled[i].ok =>
           /\ i = Len(PageFetches)
           /\ pc = "done"
           /\ xfuRet.kind = "returned"

\* The series page succeeded after the episode page was not found: the
\* movie page is not requested.
C1_Witness ==
  /\ entry = "getEmbed"
  /\ xfuRet.kind = "returned"
  /\ KindsOf(PageFetches) = <<"episode", "series">>

(***************************************************************************)
(* C2, as claimed.  If the episode page's request fails with anything      *)
(* other than an HTTP 404 (a network error, a DNS failure, a timeout, a    *)
(* malformed response), no series or movie page is requested and           *)
(* extractFromUrl fails with that error.                                   *)
(***************************************************************************)
C2_Original ==
  (entry = "getEmbed" /\ error.cause \notin {"none", "http404"}) =>
    /\ \A i \in 1..Len(fetched) : fetched[i].kind \notin {"series", "movies"}
    /\ xfuRet = Thrown(error)

(***************************************************************************)
(* C2, amended.  If the episode page's request fails with an error that    *)
(* has no response status 404, no status 404, no "404" in its message and  *)
(* a code other than ENOTFOUND, no series or movie page is requested and   *)
(* extractFromUrl fails with that error.                                   *)
(***************************************************************************)
C2_UnclassifiedErrorAborts ==
  ( /\ entry = "getEmbed"
    /\ error.cause # "none"
    /\ error.responseStatus # HttpNotFound
    /\ error.status # HttpNotFound
    /\ ~Includes(error.message, <<"4", "0", "4">>)
    /\ error.code # "ENOTFOUND" ) =>
    /\ \A i \in 1..Len(fetched) : fetched[i].kind \notin {"series", "movies"}
    /\ xfuRet = Thrown(error)

\* A timeout of the episode page's request ended the operation.
C2_Witness ==
  /\ entry = "getEmbed"
  /\ error.cause = "timeout"
  /\ xfuRet = Thrown(error)
  /\ KindsOf(PageFetches) = <<"episode">>

(***************************************************************************)
(* C3.  Whenever extractFromUrl(id) returns, from whichever page, the      *)
(* result's id is the identifier of the request and its servers are the    *)
(* servers of the page that succeeded, ascending by index.                 *)
(***************************************************************************)
C3_ResultOfThePageThatSucceeded ==
  (entry = "getEmbed" /\ xfuRet.kind = "returned") =>
    LET last == settled[Len(settled)]
        servers == xfuRet.data.servers
    IN /\ last.ok
       /\ last.url.kind \in PageKinds
       /\ xfuRet.data.id = params.id
       /\ \A i, j \in 1..Len(servers) :
            i < j => servers[i].server <= servers[j].server
       /\ Len(servers) = Cardinality(GoodOptions(last.body))
       /\ \A i \in GoodOptions(last.body) : \E k \in 1..Len(servers) :
            /\ servers[k].server = NumberOf(last.body.options[i])
            /\ servers[k].url = SourceOf(last.body.options[i])
       /\ \A k \in 1..Len(servers) : \E i \in GoodOptions(last.body) :
            /\ servers[k].server = NumberOf(last.body.options[i])
            /\ servers[k].url = SourceOf(last.body.options[i])

\* The episode page was not found and the series page gave two servers,
\* for an identifier that is not its own series slug.
C3_Witness ==
  /\ entry = "getEmbed"
  /\ xfuRet.kind = "returned"
  /\ settled[Len(settled)].url.kind = "series"
  /\ settled[Len(settled)].url.a # params.id
  /\ Len(xfuRet.data.servers) = 2
  /\ xfuRet.data.servers[1].server < xfuRet.data.servers[2].server

(***************************************************************************)
(* C4.  A page request that succeeds with no server in the page is a       *)
(* success: extractFromUrl returns the result with no servers at once and  *)
(* requests no other page; a page is requested after another only when     *)
(* that other request failed.                                              *)
(***************************************************************************)
C4_EmptyPageIsAResult ==
  entry = "getEmbed" =>
    /\ \A i \in 1..Len(PageSettled) :
         (PageSettled[i].ok /\ GoodOptions(PageSettled[i].body) = {}) =>
           /\ i = Len(PageFetches)
           /\ xfuRet.kind = "returned"
           /\ xfuRet.data.servers = <<>>
    /\ \A i \in 2..Len(PageFetches) :
         /\ i - 1 <= Len(PageSettled)
         /\ ~PageSettled[i - 1].ok

\* The episode page had an option block but no frame source.
C4_Witness ==
  /\ entry = "getEmbed"
  /\ xfuRet.kind = "returned"
  /\ xfuRet.data.servers = <<>>
  /\ Len(settled[Len(settled)].body.options) > 0
  /\ KindsOf(PageFetches) = <<"episode">>

(***************************************************************************)
(* C5.  In getEmbedByDataIdAndEpisode the request does not wait for the    *)
(* metadata API for ever: while the race is awaited, the timer fires or    *)
(* the metadata request settles, and the page requests begin; when the     *)
(* timer settled the race the title is null, the candidates are the        *)
(* popular titles and the first page requested is the episode page of the  *)
(* first of them.                                                          *)
(***************************************************************************)
C5_TimerUnblocksTheRequest ==
  /\ [](raceWinner = "timer" =>
          /\ timeoutPromise = "rejected"
          /\ animeTitle = NullStr
          /\ seriesPatterns = PopularSlugs
          /\ Len(PageFetches) >= 1
          /\ PageFetches[1].kind = "episode"
          /\ PageFetches[1].a =
               PopularSlugs[1] \o <<"-">> \o NumToStr(season) \o <<"x">>
                 \o NumToStr(episode))
  /\ (pc = "await race") ~> (raceWinner = "timer" \/ apiPromise # PendingPromise)
  /\ (pc = "await race") ~> (Len(PageFetches) >= 1)

\* The timer settled the race, the metadata request is still in flight and
\* the first page request is awaited.
C5_Witness ==
  /\ raceWinner = "timer"
  /\ apiPromise = PendingPromise
  /\ pc = "await constructed episode"

(***************************************************************************)
(* C6.  Whenever getEmbedWithMapping(episodeId) returns, extractFromUrl    *)
(* was called once, with episodeId; the result's id is episodeId; and the  *)
(* mapping is attached exactly when the search of the metadata API gave a  *)
(* first record with an id.                                                *)
(***************************************************************************)
SearchMatched ==
  \E i \in 1..Len(settled) :
    /\ settled[i].url.kind = "api?q"
    /\ settled[i].ok
    /\ Len(settled[i].body.items) > 0
    /\ Truthy(settled[i].body.items[1].id)

C6_MappingIsEnrichmentOnly ==
  (entry = "getEmbed" /\ ret.kind = "returned") =>
    /\ Cardinality({i \in 1..Len(calls) : calls[i].op = "extractFromUrl"}) = 1
    /\ \A i \in 1..Len(calls) :
         calls[i].op = "extractFromUrl" => calls[i].arg = params.id
    /\ \A i \in 1..Len(fetched) :
         fetched[i].kind = "episode" => fetched[i].a = params.id
    /\ ret.data.id = params.id
    /\ ("externalApiMapping" \in DOMAIN ret.data) <=> SearchMatched

\* A result with the mapping attached, whose servers come from the series
\* page.
C6_Witness ==
  /\ entry = "getEmbed"
  /\ ret.kind = "returned"
  /\ "externalApiMapping" \in DOMAIN ret.data
  /\ settled[Len(settled)].url.kind = "series"
  /\ Len(ret.data.servers) > 0

(***************************************************************************)
(* C7, as claimed.  No error of a request to the metadata API leaves an    *)
(* operation of the extractor: what an operation throws never comes from   *)
(* the metadata API.                                                       *)
(***************************************************************************)
C7_Original == ret.kind = "thrown" => ret.error.origin # "api"

(***************************************************************************)
(* C8.  When extractFromUrl fails during a getEmbed request,               *)
(* getEmbedWithMapping throws the same error, with or without a mapping,   *)
(* and the endpoint answers no 200 but throws a BadRequestError whose      *)
(* message holds the error's message.                                      *)
(***************************************************************************)
C8_RetrievalFailureReachesTheCaller ==
  (entry = "getEmbed" /\ xfuRet.kind = "thrown") =>
    /\ ret = Thrown(xfuRet.error)
    /\ http.kind = "error"
    /\ http.name = "BadRequestError"
    /\ Includes(http.message, xfuRet.error.message)

\* The retrieval failed after the metadata had been resolved.
C8_Witness ==
  /\ entry = "getEmbed"
  /\ xfuRet.kind = "thrown"
  /\ mappedData.kind = "mapped"
  /\ http.kind = "error"

(***************************************************************************)
(* C9.  In both endpoints a request with a required path parameter         *)
(* missing fails with a client error, and no operation of the extractor    *)
(* is called and no request is made for it.                                *)
(***************************************************************************)
C9_MissingParameterStopsTheRequest ==
  ( \/ entry = "getEmbed" /\ params.id = NullStr
    \/ /\ entry = "getEmbedByDataIdAndEpisode"
       /\ \/ params.dataId = NullStr
          \/ params.season = NullStr
          \/ params.episode = NullStr ) =>
    /\ calls = <<>>
    /\ fetched = <<>>
    /\ ret = Pending
    /\ pc \in {"start", "done"}
    /\ pc = "done" => (http.kind = "error" /\ http.name = "BadRequestError")

\* The endpoint by (dataId, season, episode) answered a request that had a
\* dataId but no season.
C9_Witness ==
  /\ entry = "getEmbedByDataIdAndEpisode"
  /\ params.dataId # NullStr
  /\ params.season = NullStr
  /\ pc = "done"
  /\ http.kind = "error"

(***************************************************************************)
(* C10, as claimed.  With the title unresolved, every candidate slug that  *)
(* is tried has its composite identifier's episode page requested before   *)
(* its series page and its movie page.                                     *)
(***************************************************************************)
C10_Original ==
  ( /\ entry = "getEmbedByDataIdAndEpisode"
    /\ raceWinner # "none"
    /\ ~Truthy(animeTitle) ) =>
    \A i \in 1..Len(fetched) :
      fetched[i].kind \in {"series", "movies"} =>
        \E j \in 1..i - 1 :
          /\ fetched[j].kind = "episode"
          /\ fetched[j].a =
               fetched[i].a \o <<"-">> \o NumToStr(season) \o <<"x">>
                 \o NumToStr(episode)

(***************************************************************************)
(* C10, amended.  With the title unresolved, a composite identifier is     *)
(* built for the first slug of the popular list only, and its episode      *)
(* page is requested before any series or movie page; after it the         *)
(* candidates are tried in list order, each by its series page and then    *)
(* its movie page, and no other episode page is requested.                 *)
(***************************************************************************)
C10_OnlyTheFirstCandidateHasAnEpisodePage ==
  ( /\ entry = "getEmbedByDataIdAndEpisode"
    /\ raceWinner # "none"
    /\ ~Truthy(animeTitle) ) =>
    /\ Len(PageFetches) >= 1
    /\ PageFetches[1].kind = "episode"
    /\ PageFetches[1].a =
         PopularSlugs[1] \o <<"-">> \o NumToStr(season) \o <<"x">>
           \o NumToStr(episode)
    /\ constructedEpisodeId = PageFetches[1].a
    /\ Len(PageFetches) <= 1 + 2 * Len(PopularSlugs)
    /\ \A i \in 2..Len(PageFetches) :
         /\ PageFetches[i].a = PopularSlugs[i \div 2]
         /\ PageFetches[i].kind = IF i % 2 = 0 THEN "series" ELSE "movies"

\* The second candidate's series page has been requested.
C10_Witness ==
  /\ entry = "getEmbedByDataIdAndEpisode"
  /\ ~Truthy(animeTitle)
  /\ candIdx = 2
  /\ fetched[Len(fetched)].kind = "series"

(***************************************************************************)
(* C11.  getEmbedByDataIdAndEpisode fails only after exhaustion: when it   *)
(* has thrown, every candidate slug (the one slug of the resolved title,   *)
(* or each slug of the popular list, in list order) has had its series     *)
(* page and then its movie page requested, and every page request failed;  *)
(* and a page request that succeeds is the last one made: the operation    *)
(* returns without trying a later candidate.                               *)
(***************************************************************************)
C11_FailsOnlyAfterExhaustion ==
  entry = "getEmbedByDataIdAndEpisode" =>
    /\ ret.kind = "thrown" =>
         /\ \/ seriesPatterns = PopularSlugs
            \/ Truthy(animeTitle) /\ Len(seriesPatterns) = 1
         /\ Len(PageFetches) = 1 + 2 * Len(seriesPatterns)
         /\ Len(PageSettled) = Len(PageFetches)
         /\ \A i \in 1..Len(PageSettled) :
              /\ PageSettled[i].url = PageFetches[i]
              /\ ~PageSettled[i].ok
         /\ \A c \in 1..Len(seriesPatterns) :
              /\ PageFetches[2 * c] = SeriesUrl(seriesPatterns[c])
              /\ PageFetches[2 * c + 1] = MoviesUrl(seriesPatterns[c])
    /\ \A i \in 1..Len(PageSettled) :
         PageSettled[i].ok =>
           /\ i = Len(PageFetches)
           /\ pc = "done"
           /\ ret.kind = "returned"

\* The operation threw after the pages of all the popular titles failed.
C11_Witness ==
  /\ entry = "getEmbedByDataIdAndEpisode"
  /\ ret.kind = "thrown"
  /\ seriesPatterns = PopularSlugs
  /\ candIdx = Len(PopularSlugs)
(***************************************************************************)
(* C12.  For every page, the list extract returns is ascending by index,   *)
(* and every entry has a url and a name that are not empty: an option      *)
(* block without a frame source gives no entry, an entry's url is its      *)
(* block's frame source, and its name is its tab's label without the       *)
(* blanks around it, or "Server " and the index when the block has no tab  *)
(* or a blank label.                                                       *)
(***************************************************************************)
\* The text of the first tab link of an option block; empty without one.
LabelOf(page, opt) ==
  LET hits == {i \in 1..Len(page.tabs) : page.tabs[i].href = opt.idSuffix}
  IN IF hits = {} THEN <<>>
     ELSE page.tabs[CHOOSE i \in hits : \A j \in hits : i <= j].text

Blank(s) == \A i \in 1..Len(s) : s[i] \in WhiteSpace

\* name is text without the blanks at its ends.
Trimmed(name, text) ==
  /\ Len(name) > 0
  /\ name[1] \notin WhiteSpace
  /\ name[Len(name)] \notin WhiteSpace
  /\ \E i \in 1..Len(text) - Len(name) + 1 :
       /\ SubSeq(text, i, i + Len(name) - 1) = name
       /\ Blank(SubSeq(text, 1, i - 1))
       /\ Blank(SubSeq(text, i + Len(name), Len(text)))

\* The entry e is what the option block opt of the page gives.
EntryOf(e, page, opt) ==
  /\ e.server = NumberOf(opt)
  /\ e.url = SourceOf(opt)
  /\ IF Blank(LabelOf(page, opt))
     THEN e.name = <<"S", "e", "r", "v", "e", "r", " ">> \o NumToStr(NumberOf(opt))
     ELSE Trimmed(e.name, LabelOf(page, opt))

C12_SortedSourcedAndNamed ==
  (entry = "extract" /\ pc = "done") =>
    LET servers == ret.data.servers
    IN /\ \A i, j \in 1..Len(servers) :
            i < j => servers[i].server <= servers[j].server
       /\ \A k \in 1..Len(servers) :
            /\ servers[k].url # NullStr
            /\ Len(servers[k].url) > 0
            /\ servers[k].name # NullStr
            /\ Len(servers[k].name) > 0
       /\ Len(servers) = Cardinality(GoodOptions(html))
       /\ \A k \in 1..Len(servers) : \E i \in GoodOptions(html) :
            EntryOf(servers[k], html, html.options[i])
       /\ \A i \in GoodOptions(html) : \E k \in 1..Len(servers) :
            EntryOf(servers[k], html, html.options[i])

\* Three blocks out of order, one of them without a frame source, one with
\* a blank label and one with a label: two entries, in order.
C12_Witness ==
  /\ entry = "extract"
  /\ pc = "done"
  /\ Len(html.options) = 3
  /\ html.options[1].idSuffix = <<"2">>
  /\ html.options[2].src = NullStr /\ html.options[2].dataSrc = NullStr
  /\ html.options[3].idSuffix = <<"1">>
  /\ Len(ret.data.servers) = 2
  /\ ret.data.servers[1].name = <<"H", "D">>
  /\ ret.data.servers[2].name = <<"S", "e", "r", "v", "e", "r", " ", "2">>

(***************************************************************************)
(* C13, as claimed.  For every page, no two entries of the list extract    *)
(* returns carry the same index, whatever option blocks the page holds.    *)
(***************************************************************************)
C13_Original ==
  (entry = "extract" /\ pc = "done") =>
    \A i, j \in 1..Len(ret.data.servers) :
      i # j => ret.data.servers[i].server # ret.data.servers[j].server
(***************************************************************************)
(* C14.  Round trip of the identifier codec: for every composite           *)
(* identifier "<slug>-<season>x<episode>" whose season and episode digits  *)
(* have no leading zero, whatever hyphens, digits or inner "-<n>x<m>"      *)
(* group its slug holds, parseEpisodeId returns a record, and animeTitle,  *)
(* "-", season, "x", episode put together again are the identifier.        *)
(***************************************************************************)
\* Digits that are "0" or do not start with "0".
NoLeadingZero(d) == IsDigits(d) /\ (Len(d) = 1 \/ d[1] # "0")

\* s is a slug of one line, "-", digits, "x", digits.
IsCompositeId(s) ==
  \E k \in 2..Len(s), x \in 3..Len(s) :
    /\ k < x
    /\ s[k] = "-"
    /\ s[x] = "x"
    /\ \A i \in 1..k - 1 : s[i] \notin LineTerminators
    /\ NoLeadingZero(SubSeq(s, k + 1, x - 1))
    /\ NoLeadingZero(SubSeq(s, x + 1, Len(s)))

C14_ParseThenBuildIsTheIdentifier ==
  (entry = "parseEpisodeId" /\ pc = "done" /\ IsCompositeId(episodeId)) =>
    /\ ret.kind = "returned"
    /\ ret.data.kind = "parsed"
    /\ ret.data.animeTitle \o <<"-">> \o NumToStr(ret.data.season) \o <<"x">>
         \o NumToStr(ret.data.episode) = episodeId

\* An identifier whose slug ends with a group of its own was parsed.
C14_Witness ==
  /\ entry = "parseEpisodeId"
  /\ pc = "done"
  /\ episodeId = <<"a", "-", "1", "x", "1", "-", "1", "0", "x", "1", "2">>
  /\ ret.data.kind = "parsed"
  /\ ret.data.animeTitle = <<"a", "-", "1", "x", "1">>
  /\ ret.data.season = 10
  /\ ret.data.episode = 12

(***************************************************************************)
(* C16, as claimed.  Every record parseEpisodeId returns has a season      *)
(* above zero and an episode above zero, for every identifier.             *)
(***************************************************************************)
C16_Original ==
  (entry = "parseEpisodeId" /\ pc = "done" /\ ret.data.kind = "parsed") =>
    /\ ret.data.season > 0
    /\ ret.data.episode > 0

(***************************************************************************)
(* C19.  The two operations of the codec agree on every identifier: when   *)
(* parseEpisodeId gives a record, getSeriesIdFromEpisodeId returns its     *)
(* animeTitle; when it gives null, getSeriesIdFromEpisodeId returns the    *)
(* identifier as it is; getSeriesIdFromEpisodeId always returns.           *)
(***************************************************************************)
C19_CodecOperationsAgree ==
  (entry = "getSeriesIdFromEpisodeId" /\ pc = "done") =>
    /\ ret.kind = "returned"
    /\ IF parseEpisodeId(episodeId).kind = "parsed"
       THEN ret.data = parseEpisodeId(episodeId).animeTitle
       ELSE ret.data = episodeId

\* The series slug of an identifier with two groups keeps the first group.
C19_Witness ==
  /\ entry = "getSeriesIdFromEpisodeId"
  /\ pc = "done"
  /\ episodeId = <<"a", "-", "1", "x", "1", "-", "1", "x", "0">>
  /\ ret.data = <<"a", "-", "1", "x", "1">>
(***************************************************************************)
(* C15.  In getEmbedByDataIdAndEpisode, once the timer has settled the     *)
(* race, a response of the metadata API that arrives later is not acted    *)
(* upon, even when it holds a record of the dataId with a title: the       *)
(* title stays null, the candidates stay the popular titles, every page    *)
(* requested is a page of a popular title, no other metadata request is    *)
(* made, and the title of the mapping returned is "Unknown".               *)
(***************************************************************************)
C15_LateMetadataIsDiscarded ==
  raceWinner = "timer" =>
    /\ animeTitle = NullStr
    /\ seriesPatterns = PopularSlugs
    /\ constructedEpisodeId =
         PopularSlugs[1] \o <<"-">> \o NumToStr(season) \o <<"x">>
           \o NumToStr(episode)
    /\ \A i \in 1..Len(fetched) :
         \/ i = 1 /\ fetched[i] = ApiAllUrl
         \/ i = 2 /\ fetched[i] = EpisodeUrl(constructedEpisodeId)
         \/ /\ i > 2
            /\ fetched[i].kind \in {"series", "movies"}
            /\ \E c \in 1..Len(PopularSlugs) : fetched[i].a = PopularSlugs[c]
    /\ \A i \in 1..Len(settled) : settled[i].url.kind \in PageKinds
    /\ ret.kind = "returned" =>
         /\ ret.data.externalApiMapping.title = UnknownTitle
         /\ ret.data.externalApiMapping.constructedId = constructedEpisodeId

\* The timer won, the metadata arrived later with a titled record of the
\* dataId, and the operation returned the servers of a page.
C15_Witness ==
  /\ raceWinner = "timer"
  /\ apiPromise.state = "fulfilled"
  /\ FoundTitle(apiPromise.value, dataId) # NullStr
  /\ ret.kind = "returned"
  /\ Len(ret.data.servers) > 0
(***************************************************************************)
(* C17, as claimed.  The series slug that getEmbedByDataIdAndEpisode and   *)
(* getEmbedByDataId derive from a resolved title is the title in lower     *)
(* case, with every run of whitespace replaced by one hyphen and every     *)
(* character outside [a-z0-9-] removed: the slug of every series and       *)
(* movie page requested holds characters of [a-z0-9-] only.                *)
(***************************************************************************)
\* [a-z0-9-]
PlainSlugChars ==
  {LowerChars[i] : i \in 1..Len(LowerChars)} \cup DigitChars \cup {"-"}

\* The normalisation the claim describes.
PlainSlug(title) ==
  SelectSeq(ReplaceWhiteSpace(ToLowerCase(title)),
            LAMBDA c : c \in PlainSlugChars)

C17_Original ==
  ( /\ entry \in {"getEmbedByDataIdAndEpisode", "getEmbedByDataId"}
    /\ Truthy(animeTitle) ) =>
    \A i \in 1..Len(fetched) :
      fetched[i].kind \in {"series", "movies"} =>
        /\ fetched[i].a = PlainSlug(animeTitle)
        /\ \A j \in 1..Len(fetched[i].a) : fetched[i].a[j] \in PlainSlugChars
(***************************************************************************)
(* C18.  In extractFromUrl(id), when the episode page is not found and     *)
(* the series page's and the movie page's requests both fail, the          *)
(* operation returns no result: it throws, and what it throws is the       *)
(* error of the last request, the movie page's, whatever the episode       *)
(* page's error was.                                                       *)
(***************************************************************************)
C18_ExhaustedFallbackThrowsTheLastError ==
  ( /\ entry = "getEmbed"
    /\ Len(PageSettled) = 3
    /\ ~PageSettled[3].ok ) =>
    /\ ~PageSettled[1].ok
    /\ ~PageSettled[2].ok
    /\ PageSettled[3].url = MoviesUrl(getSeriesIdFromEpisodeId(params.id))
    /\ pc = "done"
    /\ xfuRet.kind = "thrown"
    /\ xfuRet.error = lastDetailError
    /\ ret = Thrown(lastDetailError)
    /\ http.kind = "error"
    /\ http.message = FailedPrefix \o lastDetailError.message

\* The episode page was not found, the movie page's request was the last
\* to fail, with a server error, and the operation threw that error.
C18_Witness ==
  /\ entry = "getEmbed"
  /\ Len(PageSettled) = 3
  /\ error.cause = "http404"
  /\ lastDetailError.cause = "http500"
  /\ xfuRet = Thrown(lastDetailError)
(***************************************************************************)
(* C20.  Provided every request issued settles, every retrieval ends,      *)
(* after a bounded number of requests and with no URL requested twice:     *)
(* extractFromUrl makes at most 3 page requests (and getEmbedWithMapping   *)
(* at most 1 metadata request before them); getEmbedByDataIdAndEpisode     *)
(* makes exactly 1 metadata request and at most 1 + 2 * (the number of     *)
(* candidate slugs) page requests; a URL that failed is not tried again.   *)
(***************************************************************************)
ApiFetches == SelectSeq(fetched, LAMBDA u : u.kind \in ApiKinds)

C20_EndsAfterBoundedFetches ==
  /\ [](\A i, j \in 1..Len(fetched) : i # j => fetched[i] # fetched[j])
  /\ [](entry = "getEmbed" =>
          /\ Len(PageFetches) <= 3
          /\ Len(ApiFetches) <= 1)
  /\ [](entry = "getEmbedByDataIdAndEpisode" =>
          /\ Len(ApiFetches) = IF calls = <<>> THEN 0 ELSE 1
          /\ Len(PageFetches) <= 1 + 2 * Len(seriesPatterns)
          /\ Len(seriesPatterns) \in {0, 1, Len(PopularSlugs)})
  /\ <>(pc = "done")

\* getEmbedByDataIdAndEpisode has ended after the most requests it can
\* make: one for the metadata and 29 for pages.
C20_Witness ==
  /\ entry = "getEmbedByDataIdAndEpisode"
  /\ pc = "done"
  /\ Len(ApiFetches) = 1
  /\ Len(PageFetches) = 1 + 2 * Len(PopularSlugs)

====
